---- MODULE Spec2Model ----
(***************************************************************************)
(* The CSRF double-submit-cookie guard of src/middleware/authMiddleware.js *)
(* (lines 214-338): the process-wide tokenStore, the hourly sweep and the  *)
(* csrfProtection middleware.                                              *)
(*                                                                         *)
(* Strings of the program are strings here.  crypto.randomBytes(32) is     *)
(* modelled as a source that never repeats a value: the n-th call of       *)
(* generateToken returns Hex(n).  The clock is in milliseconds.            *)
(* csrfErrorHandler (lines 315-332) and the delivery of the response come  *)
(* after the guard; a handler runs to completion before the next event.    *)
(***************************************************************************)
EXTENDS Integers, Sequences, FiniteSets, TLC

VARIABLES
    tokenStore,   \* the Map of line 224: session key -> [token, expires]
    now,          \* Date.now(), in ms since the module was loaded
    nextSweep,    \* the instant the setInterval timer of line 227 is due
    entropy,      \* number of generateToken() calls made so far
    req,          \* the request csrfProtection handled last
    out,          \* what that invocation did: its locals, res.cookie, res.locals, next(...)
    used,         \* history: the <<session key, token>> pairs that passed validation
    response,     \* the HTTP response to req: pending, sent (by whom, what) or aborted
    closing,      \* the host has closed the server: no request is handled any more
    delivered,    \* history: the tokens a client has received in a csrf-token cookie
    keyless,      \* history: the tokens issued to safe requests without session key
    inflight,     \* the requests the server has accepted and csrfProtection has not run for
    sanPhase,     \* mongoSanitize: "idle", "received" (before it runs), "done" (after next())
    sanReq,       \* mongoSanitize: req.body, req.query and req.params
    sanRaw,       \* history: sanReq as the request came in
    users,        \* routes/auth.js 13: the Map of users, lower-case email -> user
    awaiting,     \* the register and login handlers that wait for bcrypt at an await
    replies,      \* history: the responses of the register and login handlers
    apiReq,       \* a request to an admin route: method, Authorization, cookies, query, req.user
    apiStage,     \* where that request is in the chain authenticate, authorize('admin'), handler
    apiRes,       \* the response to apiReq, and whether the route handler has run
    isConnected,  \* unnamed/part_002 29: the connection flag
    connecting,   \* the connectDB calls that wait at await mongoose.connect
    disconnecting,\* the disconnectDB calls that wait at await mongoose.connection.close
    readyState,   \* mongoose.connection.readyState: 0, 1, 2 or 3
    connectCalls, \* history: the number of mongoose.connect calls made
    lastEvent,    \* history: the last connection event
    listeners,    \* the number of 'disconnected' and 'reconnected' listeners registered
    exited        \* process.exit has been called

\* the state of the CSRF guard
guardVars == <<tokenStore, now, nextSweep, entropy, req, out, used,
               response, closing, delivered, keyless, inflight>>

\* the state of the sanitising middleware
sanVars == <<sanPhase, sanReq, sanRaw>>

\* the state of the routes of routes/auth.js
authVars == <<users, awaiting, replies>>

\* the state of the admin routes of routes/index.js
adminVars == <<apiReq, apiStage, apiRes>>

\* the state of the database connection of unnamed/part_002
dbVars == <<isConnected, connecting, disconnecting, readyState, connectCalls,
            lastEvent, listeners, exited>>

\* the state of the rest of the application
appVars == <<sanVars, authVars, adminVars, dbVars>>

vars == <<guardVars, appVars>>

----------------------------------------------------------------------------
(* Bounds of the model *)

\* generateToken() is called at most MaxTokens times in a behaviour
MaxTokens == 3
\* the clock runs over the instants h * OneHour and h * OneHour + 1, h \in 0..MaxHours
MaxHours == 2
\* at most MaxInFlight requests wait for csrfProtection at a time
MaxInFlight == 2
\* the keys of the objects mongoSanitize is given have 1..MaxKeyLen characters
MaxKeyLen == 2
\* at most MaxAuthRequests register and login requests are made in a behaviour
MaxAuthRequests == 3

\* the calls of mongoose.connect, and the disconnectDB calls that wait together
MaxConnects == 4

----------------------------------------------------------------------------
(* Values *)

\* a property that is not there (req.sessionID, req.body._csrf, a cookie, ...)
Undefined == "<undefined>"

\* 60 * 60 * 1000: the TTL of a record (256, 298), the cookie maxAge and the sweep period (234)
OneHour == 60 * 60 * 1000

\* JavaScript truthiness of a string-or-undefined value
Truthy(v) == v # Undefined /\ v # ""

\* the right operand whatever the left one is
OrSecond(a, b) == b

\* a || b
Or(a, b) == IF Truthy(a) THEN a ELSE b

\* generateToken() returning the value made once when the module was loaded
HexOnce(n) == "h0"

\* the value of the n-th generateToken(): crypto.randomBytes(32).toString('hex')
Hex(n) == "h" \o ToString(n)

\* Hex(n) in upper case: the same hex digits, the letters capitalised
UpperHex(n) == "H" \o ToString(n)

\* a string that differs from Hex(n) in its first character
NearHex(n) == "g" \o ToString(n)

SafeMethods == {"GET", "HEAD", "OPTIONS"}

\* the method list without OPTIONS
IsSafeMethodNoOptions(m) == m \in {"GET", "HEAD"}

Methods == SafeMethods \cup {"POST"}

IsSafeMethod(m) == m \in SafeMethods

\* a token value no generateToken() call returns
Forged == "forged"

\* tokenStore.get(k) of a missing key
NoRecord == [found |-> FALSE, token |-> Undefined, expires |-> 0]

\* tokenStore.get(k)
MapGet(store, k) ==
    IF k \in DOMAIN store
    THEN [found |-> TRUE, token |-> store[k].token, expires |-> store[k].expires]
    ELSE NoRecord

\* a get that renews the record it finds for another hour
MapAfterGetTouch(store, k) ==
    [x \in DOMAIN store |->
        IF x = k THEN [store[x] EXCEPT !.expires = store[x].expires + OneHour] ELSE store[x]]

\* the store after tokenStore.get(k): Map.prototype.get writes nothing
MapAfterGet(store, k) == store

\* a set that empties the store before it writes
MapSetOnly(store, k, token, expires) ==
    [x \in {k} |-> [token |-> token, expires |-> expires]]

\* a set that leaves the record of a key that has one
MapSetIfAbsent(store, k, token, expires) ==
    [x \in DOMAIN store \cup {k} |->
        IF x \in DOMAIN store THEN store[x] ELSE [token |-> token, expires |-> expires]]

\* a set that writes the token and leaves the expiry of a record that exists
MapSetKeepExpiry(store, k, token, expires) ==
    [x \in DOMAIN store \cup {k} |->
        IF x = k
        THEN [token |-> token,
              expires |-> IF k \in DOMAIN store THEN store[k].expires ELSE expires]
        ELSE store[x]]

\* a set that writes the expiry and leaves the token of a record that exists
MapSetKeepToken(store, k, token, expires) ==
    [x \in DOMAIN store \cup {k} |->
        IF x = k
        THEN [token |-> IF k \in DOMAIN store THEN store[k].token ELSE token,
              expires |-> expires]
        ELSE store[x]]

\* tokenStore.set(k, {token, expires})
MapSet(store, k, token, expires) ==
    [x \in DOMAIN store \cup {k} |->
        IF x = k THEN [token |-> token, expires |-> expires] ELSE store[x]]

\* now >= data.expires
IsExpiredInclusive(data, t) == t >= data.expires

\* a test no record passes
IsExpiredNever(data, t) == FALSE

\* the test a millisecond early
IsExpiredEarly(data, t) == t + 1 > data.expires

\* the test of line 230
IsExpired(data, t) == t > data.expires

\* the loop of lines 229-233
SweepStore(store, t) ==
    [k \in {x \in DOMAIN store : ~IsExpired(store[x], t)} |-> store[k]]

\* a fixed key when the request has none
SessionOfOrAnonymous(r) ==
    IF r.sessionID \notin {Undefined, ""} THEN r.sessionID
    ELSE IF r.cookieSessionId \notin {Undefined, ""} THEN r.cookieSessionId
    ELSE "anonymous"

\* line 272: req.sessionID || req.cookies?.sessionId
SessionOf(r) == Or(r.sessionID, r.cookieSessionId)

\* the header before the body field
TokenFromRequestHeaderFirst(r) ==
    IF r.headerCsrf \notin {Undefined, ""} THEN r.headerCsrf
    ELSE IF r.bodyCsrf \notin {Undefined, ""} THEN r.bodyCsrf
    ELSE r.cookieCsrf

\* lines 273-276: req.body?._csrf || req.headers['x-csrf-token'] || req.cookies?.['csrf-token']
TokenFromRequest(r) == Or(Or(r.bodyCsrf, r.headerCsrf), r.cookieCsrf)

\* line 278
IsMissing(sessionId, tokenFromRequest) == ~Truthy(sessionId) \/ ~Truthy(tokenFromRequest)

\* line 287 without the comparison
IsInvalidNoCompare(storedData, tokenFromRequest) == ~storedData.found

\* line 287 with === for !==
IsInvalidInverted(storedData, tokenFromRequest) ==
    ~storedData.found \/ storedData.token = tokenFromRequest

\* line 287 with && for ||
IsInvalidBoth(storedData, tokenFromRequest) ==
    storedData.found /\ storedData.token # tokenFromRequest

\* toLowerCase() of a token value
Lower(t) ==
    IF \E i \in 1..entropy : t = UpperHex(i)
    THEN Hex(CHOOSE i \in 1..entropy : t = UpperHex(i))
    ELSE t

\* line 287 comparing without regard to letter case
IsInvalidIgnoreCase(storedData, tokenFromRequest) ==
    ~storedData.found \/ Lower(storedData.token) # Lower(tokenFromRequest)

\* line 287
IsInvalid(storedData, tokenFromRequest) ==
    ~storedData.found \/ storedData.token # tokenFromRequest

\* a message that tells a missing record from a wrong token
InvalidMessageByCause(storedData) ==
    IF storedData.found THEN "Invalid CSRF token" ELSE "CSRF session not found"

\* line 288: one message for both operands of line 287
InvalidMessage(storedData) == "Invalid CSRF token"

\* an Error without the statusCode and code assignments
CsrfErrorPlain(message) == [message |-> message, statusCode |-> 0, code |-> ""]

\* the Error objects of lines 279-281 and 288-290
CsrfError(message) == [message |-> message, statusCode |-> 403, code |-> "EBADCSRFTOKEN"]

NoError == [message |-> "", statusCode |-> 0, code |-> ""]

NoRequest ==
    [method |-> "", sessionID |-> Undefined, cookieSessionId |-> Undefined,
     bodyCsrf |-> Undefined, headerCsrf |-> Undefined, cookieCsrf |-> Undefined]

NoOutcome ==
    [next |-> "none", error |-> NoError, sessionId |-> Undefined,
     tokenFromRequest |-> Undefined, storedData |-> NoRecord,
     cookie |-> Undefined, csrfToken |-> Undefined]

\* a response nothing has been written to; state is "none" before the first
\* request and "pending" while the request is in the middleware chain
NoResponse ==
    [state |-> "none", statusCode |-> 0, kind |-> "none", view |-> "",
     payload |-> [message |-> ""], error |-> NoError, xhr |-> FALSE, accept |-> <<>>]

PendingResponse == [NoResponse EXCEPT !.state = "pending"]

----------------------------------------------------------------------------
(* The values mongoSanitize (src/unnamed/part_000, 211-270) works on.  A key is
   a sequence of characters.  A value is a leaf (anything that is not an
   object: clean returns it as it is), an object (its own properties in
   insertion order) or an array; v.e is the sequence of properties [k, v] of
   an object, of elements of an array, and empty for a leaf. *)

KeyChars == {"$", ".", "_", "a"}

Keys == UNION {[1..n -> KeyChars] : n \in 1..MaxKeyLen}

Leaf == [t |-> "leaf", e |-> <<>>]

Obj(props) == [t |-> "obj", e |-> props]

Arr(elems) == [t |-> "arr", e |-> elems]

Prop(k, v) == [k |-> k, v |-> v]

\* req.body, req.query or req.params that is not there
Absent == [t |-> "undefined", e |-> <<>>]

\* key.startsWith('$') || key.includes('.')
IsForbidden(key) == key[1] = "$" \/ \E i \in 1..Len(key) : key[i] = "."

\* key.replace(/^\$|\./, replaceWith): without the g flag, the first match only
ReplaceFirst(key, replaceWith) ==
    IF key[1] = "$" THEN [key EXCEPT ![1] = replaceWith]
    ELSE IF \E i \in 1..Len(key) : key[i] = "."
    THEN LET first == CHOOSE i \in 1..Len(key) :
                         key[i] = "." /\ \A j \in 1..(i - 1) : key[j] # "."
         IN [key EXCEPT ![first] = replaceWith]
    ELSE key

\* key.replace(/^\$|\./g, replaceWith), line 227
Replace(key, replaceWith) ==
    [i \in 1..Len(key) |->
        IF (i = 1 /\ key[i] = "$") \/ key[i] = "." THEN replaceWith ELSE key[i]]

\* the index of own property k in props, 0 when there is none
IndexOf(props, k) ==
    IF \E i \in 1..Len(props) : props[i].k = k
    THEN CHOOSE i \in 1..Len(props) : props[i].k = k
    ELSE 0

\* delete value[k]
Delete(props, k) ==
    IF IndexOf(props, k) = 0 THEN props
    ELSE SubSeq(props, 1, IndexOf(props, k) - 1)
             \o SubSeq(props, IndexOf(props, k) + 1, Len(props))

\* value[k] = v: a property that is there keeps its place, a new one comes last
Assign(props, k, v) ==
    IF IndexOf(props, k) = 0 THEN Append(props, Prop(k, v))
    ELSE [props EXCEPT ![IndexOf(props, k)] = Prop(k, v)]

RECURSIVE clean(_, _)
RECURSIVE CleanProps(_, _, _)

\* the loop of lines 221-249 over the keys for...in has still to visit; props
\* are the properties of the object as the loop has left them so far
CleanProps(props, keys, replaceWith) ==
    IF keys = <<>> THEN props
    ELSE LET key == Head(keys)
             at == IndexOf(props, key)
         IN IF at = 0
            THEN CleanProps(props, Tail(keys), replaceWith)
            ELSE LET cleanedValue == clean(props[at].v, replaceWith)
                 IN IF IsForbidden(key)
                    THEN CleanProps(Assign(Delete(props, key), Replace(key, replaceWith),
                                           cleanedValue),
                                    Tail(keys), replaceWith)
                    ELSE CleanProps(Assign(props, key, cleanedValue),
                                    Tail(keys), replaceWith)

\* clean(value, replaceWith), lines 211-252: the value it returns.  An object
\* is returned as it is after the loop has rewritten it in place; an array is
\* mapped to a new array of the cleaned elements
clean(value, replaceWith) ==
    IF value.t = "obj"
    THEN Obj(CleanProps(value.e, [i \in 1..Len(value.e) |-> value.e[i].k], replaceWith))
    ELSE IF value.t = "arr"
    THEN Arr([i \in 1..Len(value.e) |-> clean(value.e[i], replaceWith)])
    ELSE value

RECURSIVE InPlace(_, _)

\* what the structure clean was called on holds afterwards, the return value
\* being dropped (lines 259-267): an object is the returned object itself; an
\* array keeps its elements, each as clean has left it in place
InPlace(value, replaceWith) ==
    IF value.t = "obj" THEN clean(value, replaceWith)
    ELSE IF value.t = "arr"
    THEN Arr([i \in 1..Len(value.e) |-> InPlace(value.e[i], replaceWith)])
    ELSE value

\* a request before any has come in
NoSanRequest == [body |-> Absent, query |-> Absent, params |-> Absent]

\* a header, cookie or query parameter that holds no token, and a response
\* that sets no token cookie
NoToken == [payload |-> [id |-> "", email |-> "", role |-> ""],
            signature |-> "", expired |-> FALSE]

\* no Authorization header
NoAuthorization == [scheme |-> "", token |-> NoToken]

\* a request before any has come in; user is req.user, false until authenticate sets it
NoApiRequest ==
    [method |-> "", authorization |-> NoAuthorization, cookieToken |-> NoToken,
     queryToken |-> NoToken, user |-> NoToken.payload, hasUser |-> FALSE]

\* a response nothing has been written to; ran tells that the route handler has run
NoApiResponse == [status |-> 0, message |-> "", ran |-> FALSE]

----------------------------------------------------------------------------
(* State after the module is loaded (lines 224-234) *)

Init ==
    /\ tokenStore = <<>>
    /\ now = 0
    /\ nextSweep = OneHour
    /\ entropy = 0
    /\ req = NoRequest
    /\ out = NoOutcome
    /\ used = {}
    /\ response = NoResponse
    /\ closing = FALSE
    /\ delivered = {}
    /\ keyless = {}
    /\ inflight = <<>>
    /\ sanPhase = "idle"
    /\ sanReq = NoSanRequest
    /\ sanRaw = NoSanRequest
    /\ users = <<>>
    /\ awaiting = <<>>
    /\ replies = {}
    /\ apiReq = NoApiRequest
    /\ apiStage = "idle"
    /\ apiRes = NoApiResponse
    /\ isConnected = FALSE
    /\ connecting = 0
    /\ disconnecting = 0
    /\ readyState = 0
    /\ connectCalls = 0
    /\ lastEvent = "none"
    /\ listeners = 0
    /\ exited = FALSE

----------------------------------------------------------------------------
(* csrfProtection, lines 246-310, one action per path through it *)

\* the token of line 250 once more
SecondTokenSame(e) == Hex(e + 1)

\* the generateToken() call of line 251, the second of a safe request
SecondToken(e) == Hex(e + 2)

\* lines 248-269: a safe request
IssueToken(r) ==
    /\ IsSafeMethod(r.method)
    /\ LET token == Hex(entropy + 1)
           fresh == SecondToken(entropy)
           given == SessionOf(r)
           sessionId == Or(given, fresh)
           calls == IF Truthy(given) THEN 1 ELSE 2
       IN /\ entropy + calls <= MaxTokens
          /\ entropy' = entropy + calls
          /\ tokenStore' = MapSet(tokenStore, sessionId, token, now + OneHour)
          /\ out' = [next |-> "ok", error |-> NoError, sessionId |-> sessionId,
                     tokenFromRequest |-> Undefined, storedData |-> NoRecord,
                     cookie |-> token, csrfToken |-> token]
          /\ keyless' = IF Truthy(given) THEN keyless ELSE keyless \cup {token}
    /\ req' = r
    /\ response' = PendingResponse
    /\ UNCHANGED <<now, nextSweep, used, closing, delivered>>

\* lines 272-283: an unsafe request without session key or candidate token
RejectMissing(r) ==
    /\ ~IsSafeMethod(r.method)
    /\ LET sessionId == SessionOf(r)
           tokenFromRequest == TokenFromRequest(r)
       IN /\ IsMissing(sessionId, tokenFromRequest)
          /\ out' = [next |-> "error", error |-> CsrfError("CSRF token missing"),
                     sessionId |-> sessionId, tokenFromRequest |-> tokenFromRequest,
                     storedData |-> NoRecord, cookie |-> Undefined, csrfToken |-> Undefined]
    /\ req' = r
    /\ response' = PendingResponse
    /\ UNCHANGED <<tokenStore, now, nextSweep, entropy, used, closing, delivered, keyless>>

\* lines 285-292: no record, or another token than the stored one
RejectInvalid(r) ==
    /\ ~IsSafeMethod(r.method)
    /\ LET sessionId == SessionOf(r)
           tokenFromRequest == TokenFromRequest(r)
           storedData == MapGet(tokenStore, sessionId)
       IN /\ ~IsMissing(sessionId, tokenFromRequest)
          /\ IsInvalid(storedData, tokenFromRequest)
          /\ tokenStore' = MapAfterGet(tokenStore, sessionId)
          /\ out' = [next |-> "error", error |-> CsrfError(InvalidMessage(storedData)),
                     sessionId |-> sessionId, tokenFromRequest |-> tokenFromRequest,
                     storedData |-> storedData, cookie |-> Undefined, csrfToken |-> Undefined]
    /\ req' = r
    /\ response' = PendingResponse
    /\ UNCHANGED <<now, nextSweep, entropy, used, closing, delivered, keyless>>

\* lines 294-309: the token is the stored one; rotate
RotateToken(r) ==
    /\ ~IsSafeMethod(r.method)
    /\ entropy + 1 <= MaxTokens
    /\ LET sessionId == SessionOf(r)
           tokenFromRequest == TokenFromRequest(r)
           storedData == MapGet(tokenStore, sessionId)
           newToken == Hex(entropy + 1)
       IN /\ ~IsMissing(sessionId, tokenFromRequest)
          /\ ~IsInvalid(storedData, tokenFromRequest)
          /\ entropy' = entropy + 1
          /\ tokenStore' = MapSet(tokenStore, sessionId, newToken, now + OneHour)
          /\ out' = [next |-> "ok", error |-> NoError,
                     sessionId |-> sessionId, tokenFromRequest |-> tokenFromRequest,
                     storedData |-> storedData, cookie |-> newToken, csrfToken |-> newToken]
          /\ used' = used \cup {<<sessionId, tokenFromRequest>>}
    /\ req' = r
    /\ response' = PendingResponse
    /\ UNCHANGED <<now, nextSweep, closing, delivered, keyless>>

csrfProtection(r) ==
    \/ IssueToken(r)
    \/ RejectMissing(r)
    \/ RejectInvalid(r)
    \/ RotateToken(r)

\* line 186 of app.js: a request reaches the guard as it comes in
Serve(r) ==
    /\ csrfProtection(r)
    /\ UNCHANGED <<inflight, appVars>>

\* a request has come in and waits for its turn on the event loop
Arrive(r) ==
    /\ Len(inflight) < MaxInFlight
    /\ inflight' = Append(inflight, r)
    /\ UNCHANGED <<tokenStore, now, nextSweep, entropy, req, out, used,
                   response, closing, delivered, keyless, appVars>>

\* the sequence q without its i-th element
Remove(q, i) == SubSeq(q, 1, i - 1) \o SubSeq(q, i + 1, Len(q))

\* the event loop runs the guard for one of the waiting requests, from its
\* first line to its return: the guard has no await and no callback in it
Dispatch ==
    \E i \in 1..Len(inflight) :
        /\ csrfProtection(inflight[i])
        /\ inflight' = Remove(inflight, i)
        /\ UNCHANGED appVars

----------------------------------------------------------------------------
(* What follows the guard in the middleware chain of app.js *)

\* the values of the Accept header: absent, HTML, HTML and JSON
AcceptHeaders == {<<>>, <<"text/html">>, <<"text/html", "application/json">>}

\* req.headers.accept?.includes('application/json')
IncludesJson(accept) == \E i \in 1..Len(accept) : accept[i] = "application/json"

\* line 320 without the Accept header
IsApiCallerXhrOnly(xhr, accept) == xhr

\* line 320: req.xhr || req.headers.accept?.includes('application/json')
IsApiCaller(xhr, accept) == xhr \/ IncludesJson(accept)

\* the error the error-handling middleware is called with
Err == IF out.next = "error" THEN out.error ELSE response.error

\* app.js 193-202: a route answers; the Set-Cookie header of res.cookie goes out with it
RouteResponds ==
    /\ response.state = "pending"
    /\ out.next = "ok"
    /\ response.error = NoError
    /\ response' = [response EXCEPT !.state = "sent", !.statusCode = 200, !.kind = "route"]
    /\ delivered' = delivered \cup {out.cookie}
    /\ UNCHANGED <<tokenStore, now, nextSweep, entropy, req, out, used, closing, keyless,
                   inflight, appVars>>

\* app.js 193-202: a route throws or calls next(err) with an error of its own
RouteFails ==
    /\ response.state = "pending"
    /\ out.next = "ok"
    /\ response.error = NoError
    /\ response' = [response EXCEPT
                        !.error = [message |-> "route failed", statusCode |-> 0, code |-> ""]]
    /\ UNCHANGED <<tokenStore, now, nextSweep, entropy, req, out, used, closing, delivered,
                   keyless, inflight, appVars>>

\* lines 315-332
csrfErrorHandler(xhr, accept) ==
    /\ response.state = "pending"
    /\ Err # NoError
    /\ response' =
          IF Err.code # "EBADCSRFTOKEN"
          THEN [response EXCEPT !.state = "passed", !.error = Err,
                                !.xhr = xhr, !.accept = accept]
          ELSE IF IsApiCaller(xhr, accept)
          THEN [state |-> "sent", statusCode |-> 403, kind |-> "json", view |-> "",
                payload |-> [status |-> "error",
                             message |-> "Invalid or missing CSRF token. Please refresh the page and try again."],
                error |-> Err, xhr |-> xhr, accept |-> accept]
          ELSE [state |-> "sent", statusCode |-> 403, kind |-> "render", view |-> "errors/403",
                payload |-> [title |-> "Forbidden",
                             message |-> "Invalid security token. Please go back and try again."],
                error |-> Err, xhr |-> xhr, accept |-> accept]
    /\ UNCHANGED <<tokenStore, now, nextSweep, entropy, req, out, used, closing, delivered,
                   keyless, inflight, appVars>>

\* app.js 220-241, the branch of the routes the guard is mounted on (not /api)
GlobalErrorHandler ==
    /\ response.state = "passed"
    /\ \E production \in BOOLEAN :
          response' = [response EXCEPT
              !.state = "sent",
              !.statusCode = IF response.error.statusCode # 0
                             THEN response.error.statusCode ELSE 500,
              !.kind = "render",
              !.view = "errors/500",
              !.payload = [title |-> "Server Error",
                           message |-> IF production THEN "Something went wrong!"
                                       ELSE response.error.message]]
    /\ delivered' = delivered \cup {out.cookie}
    /\ UNCHANGED <<tokenStore, now, nextSweep, entropy, req, out, used, closing, keyless,
                   inflight, appVars>>

\* the connection is lost before anything is written to it
Abort ==
    /\ response.state \in {"pending", "passed"}
    /\ response' = [response EXCEPT !.state = "aborted"]
    /\ UNCHANGED <<tokenStore, now, nextSweep, entropy, req, out, used, closing, delivered,
                   keyless, inflight, appVars>>

----------------------------------------------------------------------------
(* The clock and the timer of lines 227-234 *)

Instants == {h * OneHour + o : h \in 0..MaxHours, o \in {0, 1}}

\* time passes, up to the instant the timer is due
Tick ==
    /\ \E t \in Instants :
          /\ t > now
          /\ t <= nextSweep
          /\ now' = t
    /\ UNCHANGED <<tokenStore, nextSweep, entropy, req, out, used,
                   response, closing, delivered, keyless, inflight, appVars>>

\* the callback of lines 227-234
Sweep ==
    /\ now >= nextSweep
    /\ tokenStore' = SweepStore(tokenStore, now)
    /\ nextSweep' = now + OneHour
    /\ UNCHANGED <<now, entropy, req, out, used, response, closing, delivered, keyless,
                   inflight, appVars>>

\* the host stops taking requests (the server of app.js 251 is closed); the
\* module has nothing to call for it: the timer of line 227 is not kept, not
\* cleared and not unref'd, and the exports (334-338) have no stop function
Shutdown ==
    /\ ~closing
    /\ closing' = TRUE
    /\ UNCHANGED <<tokenStore, now, nextSweep, entropy, req, out, used, response, delivered,
                   keyless, inflight, appVars>>

----------------------------------------------------------------------------
(* mongoSanitize, src/unnamed/part_000 257-270, mounted with replaceWith '_'
   at app.js 113-118 *)

\* a request comes in; express.json, express.urlencoded and the query parser
\* have filled req.body and req.query
SanReceive(r) ==
    /\ sanPhase = "idle"
    /\ sanPhase' = "received"
    /\ sanReq' = r
    /\ sanRaw' = r
    /\ UNCHANGED <<guardVars, adminVars, dbVars, authVars>>

\* lines 258-269: clean is called on each part that is there, its result dropped
mongoSanitize(replaceWith) ==
    /\ sanPhase = "received"
    /\ sanPhase' = "done"
    /\ sanReq' = [part \in DOMAIN sanReq |->
                    IF sanReq[part] # Absent
                    THEN InPlace(sanReq[part], replaceWith)
                    ELSE sanReq[part]]
    /\ UNCHANGED <<guardVars, adminVars, dbVars, sanRaw, authVars>>

----------------------------------------------------------------------------
(* POST /register and POST /login, routes/auth.js 51-125 and 131-212.  Each
   handler is async: it runs to its await (bcrypt.hash, bcrypt.compare), other
   handlers run, and it goes on when the promise is settled. *)

\* a password that is a JSON number, not a string
NumberPassword == "<number 12345678>"

\* email.toLowerCase()
ToLowerCase(email) == IF email = "A@x.io" THEN "a@x.io" ELSE email

\* lines 20-23: the regular expression wants x@y.z without white space
isValidEmail(email) == email \in {"a@x.io", "A@x.io", "b@x.io"}

\* lines 30-44: eight characters, an upper-case and a lower-case letter, a digit
isValidPassword(password) == password \in {"Passw0rd1", "Passw0rd2"}

\* bcrypt.hash(password, SALT_ROUNDS)
Hash(password) == "bcrypt(" \o password \o ")"

\* jwt.sign(payload, JWT_SECRET, ...), authMiddleware.js 18-23
SignedToken(payload) == [payload |-> payload, signature |-> "JWT_SECRET", expired |-> FALSE]

\* res.status(status).json({status: ..., message}), with the token cookie or without
Reply(route, body, status, message, token) ==
    [route |-> route, email |-> body.email, password |-> body.password,
     status |-> status, message |-> message, cookie |-> token,
     found |-> ToLowerCase(body.email) \in DOMAIN users]

\* users.get(email) of an email that has no user
NoUser == [id |-> "", email |-> "", password |-> "", name |-> "", role |-> ""]

\* the message of the first test of lines 31-42 that fails
PasswordMessage(password) == "Password must be at least 8 characters long"

AuthRequestsMade == Cardinality(replies) + Len(awaiting)

\* lines 53-84: the checks of POST /register that end the request
RegisterRejects(body) ==
    /\ AuthRequestsMade < MaxAuthRequests
    /\ \/ /\ ~Truthy(body.email) \/ ~Truthy(body.password)
          /\ replies' = replies \cup
                {Reply("register", body, 400, "Email and password are required", NoToken)}
       \/ /\ Truthy(body.email) /\ Truthy(body.password)
          /\ ~isValidEmail(body.email)
          /\ replies' = replies \cup
                {Reply("register", body, 400, "Invalid email format", NoToken)}
       \/ /\ Truthy(body.email) /\ Truthy(body.password)
          /\ isValidEmail(body.email)
          /\ ~isValidPassword(body.password)
          /\ replies' = replies \cup
                {Reply("register", body, 400, PasswordMessage(body.password), NoToken)}
       \/ /\ Truthy(body.email) /\ Truthy(body.password)
          /\ isValidEmail(body.email)
          /\ isValidPassword(body.password)
          /\ ToLowerCase(body.email) \in DOMAIN users
          /\ replies' = replies \cup
                {Reply("register", body, 409, "An account with this email already exists",
                       NoToken)}
    /\ UNCHANGED <<guardVars, adminVars, dbVars, sanVars, users, awaiting>>

\* lines 53-87: the checks pass, the handler waits for bcrypt.hash
RegisterHashes(body) ==
    /\ AuthRequestsMade < MaxAuthRequests
    /\ Truthy(body.email) /\ Truthy(body.password)
    /\ isValidEmail(body.email)
    /\ isValidPassword(body.password)
    /\ ToLowerCase(body.email) \notin DOMAIN users
    /\ awaiting' = Append(awaiting, [route |-> "register", body |-> body, user |-> NoUser])
    /\ UNCHANGED <<guardVars, adminVars, dbVars, sanVars, users, replies>>

\* lines 89-118: the hash is there; the user is stored and the token sent
RegisterStores(i) ==
    /\ i \in 1..Len(awaiting)
    /\ awaiting[i].route = "register"
    /\ LET body == awaiting[i].body
           user == [id |-> ToString(now), email |-> ToLowerCase(body.email),
                    password |-> Hash(body.password), name |-> body.name, role |-> "user"]
           token == SignedToken([id |-> user.id, email |-> user.email, role |-> user.role])
       IN /\ users' = [e \in DOMAIN users \cup {user.email} |->
                          IF e = user.email THEN user ELSE users[e]]
          /\ replies' = replies \cup
                {Reply("register", body, 201, "Registration successful", token)}
    /\ awaiting' = Remove(awaiting, i)
    /\ UNCHANGED <<guardVars, adminVars, dbVars, sanVars>>

\* lines 133-153: the checks of POST /login that end the request
LoginRejects(body) ==
    /\ AuthRequestsMade < MaxAuthRequests
    /\ \/ /\ ~Truthy(body.email) \/ ~Truthy(body.password)
          /\ replies' = replies \cup
                {Reply("login", body, 400, "Email and password are required", NoToken)}
       \/ /\ Truthy(body.email) /\ Truthy(body.password)
          /\ ToLowerCase(body.email) \notin DOMAIN users
          /\ replies' = replies \cup
                {Reply("login", body, 401, "Invalid email or password", NoToken)}
    /\ UNCHANGED <<guardVars, adminVars, dbVars, sanVars, users, awaiting>>

\* lines 133-156: the user is found, the handler waits for bcrypt.compare
LoginCompares(body) ==
    /\ AuthRequestsMade < MaxAuthRequests
    /\ Truthy(body.email) /\ Truthy(body.password)
    /\ ToLowerCase(body.email) \in DOMAIN users
    /\ awaiting' = Append(awaiting, [route |-> "login", body |-> body,
                                     user |-> users[ToLowerCase(body.email)]])
    /\ UNCHANGED <<guardVars, adminVars, dbVars, sanVars, users, replies>>

\* lines 156-212: bcrypt.compare is settled.  bcryptjs rejects the promise when
\* the password is not a string ('Illegal arguments: number, string'), which
\* the catch of line 206 answers with 500
LoginAnswers(i) ==
    /\ i \in 1..Len(awaiting)
    /\ awaiting[i].route = "login"
    /\ LET body == awaiting[i].body
           user == awaiting[i].user
           token == SignedToken([id |-> user.id, email |-> user.email, role |-> user.role])
       IN replies' = replies \cup
            {IF body.password = NumberPassword
             THEN Reply("login", body, 500, "Login failed. Please try again.", NoToken)
             ELSE IF Hash(body.password) # user.password
             THEN Reply("login", body, 401, "Invalid email or password", NoToken)
             ELSE Reply("login", body, 200, "Login successful", token)}
    /\ awaiting' = Remove(awaiting, i)
    /\ UNCHANGED <<guardVars, adminVars, dbVars, sanVars, users>>

----------------------------------------------------------------------------
(* authenticate, authorize and the admin routes: middleware/authMiddleware.js
   18-126 and routes/index.js 313-337 *)

\* jwt.verify(token, JWT_SECRET) of lines 28-34: the payload of a token signed
\* with JWT_SECRET that has not expired; null, here NoToken.payload with
\* verified FALSE, for every other token
verifyToken(token) ==
    IF token.signature = "JWT_SECRET" /\ ~token.expired
    THEN [verified |-> TRUE, decoded |-> token.payload]
    ELSE [verified |-> FALSE, decoded |-> NoToken.payload]

\* lines 39-57: the Bearer token of the Authorization header, else the token
\* cookie, else the token query parameter, else null
extractToken(r) ==
    IF r.authorization.scheme = "Bearer" THEN r.authorization.token
    ELSE IF r.cookieToken # NoToken THEN r.cookieToken
    ELSE IF r.queryToken # NoToken THEN r.queryToken
    ELSE NoToken

\* a list of roles that includes every role
IncludesAny(allowedRoles, userRole) == TRUE

\* allowedRoles.includes(userRole), line 117
Includes(allowedRoles, userRole) == userRole \in allowedRoles

\* res.status(status).json({status: 'error', message})
ApiError(status, message) == [status |-> status, message |-> message, ran |-> FALSE]

\* a request comes in for GET /api/users or DELETE /api/users/:id
ApiReceive(r) ==
    /\ apiStage \in {"idle", "done"}
    /\ apiReq' = r
    /\ apiRes' = NoApiResponse
    /\ apiStage' = "authenticate"
    /\ UNCHANGED <<guardVars, sanVars, authVars, dbVars>>

\* lines 62-84
authenticate ==
    /\ apiStage = "authenticate"
    /\ LET token == extractToken(apiReq)
           result == verifyToken(token)
       IN IF token = NoToken
          THEN /\ apiRes' = ApiError(401, "Authentication required. Please login.")
               /\ apiStage' = "done"
               /\ UNCHANGED apiReq
          ELSE IF ~result.verified
          THEN /\ apiRes' = ApiError(401, "Invalid or expired token. Please login again.")
               /\ apiStage' = "done"
               /\ UNCHANGED apiReq
          ELSE /\ apiReq' = [apiReq EXCEPT !.user = result.decoded, !.hasUser = TRUE]
               /\ apiStage' = "authorize"
               /\ UNCHANGED apiRes
    /\ UNCHANGED <<guardVars, sanVars, authVars, dbVars>>

\* lines 106-126, the middleware authorize(...allowedRoles) returns
authorize(allowedRoles) ==
    /\ apiStage = "authorize"
    /\ LET userRole == Or(apiReq.user.role, "user")
       IN IF ~apiReq.hasUser
          THEN /\ apiRes' = ApiError(401, "Authentication required.")
               /\ apiStage' = "done"
          ELSE IF ~Includes(allowedRoles, userRole)
          THEN /\ apiRes' = ApiError(403, "You do not have permission to perform this action.")
               /\ apiStage' = "done"
          ELSE /\ apiStage' = "handler"
               /\ UNCHANGED apiRes
    /\ UNCHANGED <<guardVars, sanVars, authVars, dbVars, apiReq>>

\* routes/index.js 313-337: the handlers of GET /users and DELETE /users/:id
AdminHandler ==
    /\ apiStage = "handler"
    /\ apiRes' = [status |-> 200,
                  message |-> IF apiReq.method = "DELETE" THEN "User :id deleted successfully"
                              ELSE "",
                  ran |-> TRUE]
    /\ apiStage' = "done"
    /\ UNCHANGED <<guardVars, sanVars, authVars, dbVars, apiReq>>

----------------------------------------------------------------------------
(* connectDB and disconnectDB: unnamed/part_002 29-96.  mongoose.connect and
   mongoose.connection.close are awaited: the calls that wait are counted in
   connecting and disconnecting and go on together when the connection is
   open or closed.  readyState is 0 disconnected, 1 connected, 2 connecting,
   3 disconnecting. *)

\* lines 35-42: connectDB up to await mongoose.connect; it returns at once
\* when isConnected is set
connectDB ==
    /\ ~exited
    /\ IF isConnected
       THEN UNCHANGED <<connecting, connectCalls, readyState>>
       ELSE /\ connectCalls < MaxConnects
            /\ connecting' = connecting + 1
            /\ connectCalls' = connectCalls + 1
            /\ readyState' = IF readyState = 0 THEN 2 ELSE readyState
    /\ UNCHANGED <<isConnected, disconnecting, lastEvent, listeners, exited>>
    /\ UNCHANGED <<guardVars, sanVars, authVars, adminVars>>

\* lines 42-68: mongoose.connect is settled, every call that waits sets the
\* flag and registers its listeners for error, disconnected, reconnected and SIGINT
connectDBResumes ==
    /\ ~exited
    /\ connecting > 0
    /\ readyState = 2
    /\ readyState' = 1
    /\ lastEvent' = "connected"
    /\ isConnected' = TRUE
    /\ listeners' = listeners + connecting
    /\ connecting' = 0
    /\ UNCHANGED <<disconnecting, connectCalls, exited>>
    /\ UNCHANGED <<guardVars, sanVars, authVars, adminVars>>

\* lines 69-72: mongoose.connect rejects, the catch ends the process
connectDBFails ==
    /\ ~exited
    /\ connecting > 0
    /\ readyState = 2
    /\ exited' = TRUE
    /\ readyState' = 0
    /\ UNCHANGED <<isConnected, connecting, disconnecting, connectCalls, lastEvent, listeners>>
    /\ UNCHANGED <<guardVars, sanVars, authVars, adminVars>>

\* lines 51-54: the connection is lost, the listeners of 'disconnected' run
Disconnected ==
    /\ ~exited
    /\ readyState = 1
    /\ readyState' = 0
    /\ lastEvent' = "disconnected"
    /\ isConnected' = IF listeners > 0 THEN FALSE ELSE isConnected
    /\ UNCHANGED <<connecting, disconnecting, connectCalls, listeners, exited>>
    /\ UNCHANGED <<guardVars, sanVars, authVars, adminVars>>

\* lines 56-59: the driver has the connection back, the listeners of
\* 'reconnected' run
Reconnected ==
    /\ ~exited
    /\ lastEvent = "disconnected"
    /\ readyState \in {0, 2}
    /\ readyState' = 1
    /\ lastEvent' = "reconnected"
    /\ isConnected' = IF listeners > 0 THEN TRUE ELSE isConnected
    /\ UNCHANGED <<connecting, disconnecting, connectCalls, listeners, exited>>
    /\ UNCHANGED <<guardVars, sanVars, authVars, adminVars>>

\* lines 79-83: disconnectDB up to await mongoose.connection.close; it
\* returns at once when isConnected is not set
disconnectDB ==
    /\ ~exited
    /\ IF ~isConnected
       THEN UNCHANGED <<disconnecting, readyState>>
       ELSE /\ disconnecting < MaxConnects
            /\ disconnecting' = disconnecting + 1
            /\ readyState' = 3
    /\ UNCHANGED <<isConnected, connecting, connectCalls, lastEvent, listeners, exited>>
    /\ UNCHANGED <<guardVars, sanVars, authVars, adminVars>>

\* lines 83-85: the connection is closed, which the listeners of
\* 'disconnected' see, and every call that waits clears the flag
disconnectDBResumes ==
    /\ ~exited
    /\ disconnecting > 0
    /\ readyState' = 0
    /\ lastEvent' = "close"
    /\ isConnected' = FALSE
    /\ disconnecting' = 0
    /\ UNCHANGED <<connecting, connectCalls, listeners, exited>>
    /\ UNCHANGED <<guardVars, sanVars, authVars, adminVars>>

\* lines 63-67: the SIGINT listener closes the connection and ends the process
SIGINT ==
    /\ ~exited
    /\ listeners > 0
    /\ readyState' = 0
    /\ lastEvent' = "close"
    /\ isConnected' = FALSE
    /\ exited' = TRUE
    /\ UNCHANGED <<connecting, disconnecting, connectCalls, listeners>>
    /\ UNCHANGED <<guardVars, sanVars, authVars, adminVars>>

\* line 94-96
isDBConnected == isConnected /\ readyState = 1

----------------------------------------------------------------------------
(* The requests of the specifications *)

\* the token values a client can present: those generated so far, and a made-up one
KnownTokens == {Hex(i) : i \in 1..entropy} \cup {Forged}

\* Spec: any method; no session key, S1 as req.sessionID or S2 as the sessionId
\* cookie; the token in the header
ClientSessions ==
    {[sessionID |-> Undefined, cookieSessionId |-> Undefined],
     [sessionID |-> "S1", cookieSessionId |-> Undefined],
     [sessionID |-> Undefined, cookieSessionId |-> "S2"]}

Requests ==
    {[method |-> m, sessionID |-> s.sessionID, cookieSessionId |-> s.cookieSessionId,
      bodyCsrf |-> Undefined, headerCsrf |-> h, cookieCsrf |-> Undefined]
        : m \in Methods, s \in ClientSessions, h \in {Undefined} \cup KnownTokens}

Next ==
    \/ \E r \in Requests : Serve(r)
    \/ Tick
    \/ Sweep

Spec == Init /\ [][Next]_vars

\* SpecSources: every combination of the places a session key and a token can be
\* in, without the clock.  A token field is absent, empty, made up, or holds the
\* token stored for the request's session key (any stored token when the request
\* has no key of the store).
SourceSessions == [sessionID : {Undefined, "S1"}, cookieSessionId : {Undefined, ""}]

TokensFor(k) ==
    {Undefined, "", Forged} \cup
        (IF k \in DOMAIN tokenStore
         THEN {tokenStore[k].token}
         ELSE {tokenStore[x].token : x \in DOMAIN tokenStore})

SourceRequests ==
    {[method |-> "GET", sessionID |-> s.sessionID, cookieSessionId |-> s.cookieSessionId,
      bodyCsrf |-> Undefined, headerCsrf |-> Undefined, cookieCsrf |-> Undefined]
        : s \in SourceSessions}
    \cup UNION {
        {[method |-> "POST", sessionID |-> s.sessionID, cookieSessionId |-> s.cookieSessionId,
          bodyCsrf |-> b, headerCsrf |-> h, cookieCsrf |-> c]
            : b \in TokensFor(SessionOf(s)), h \in TokensFor(SessionOf(s)),
              c \in TokensFor(SessionOf(s))}
        : s \in SourceSessions}

NextSources == \E r \in SourceRequests : Serve(r)

SpecSources == Init /\ [][NextSources]_vars

\* SpecExact: the candidate in the header is a generated token, the same in
\* upper case, or one that differs in a character; the body field is absent or
\* holds the first token, as generated or in upper case
Variants == UNION {{Hex(i), UpperHex(i), NearHex(i)} : i \in 1..entropy}

ExactRequests ==
    {[method |-> "GET", sessionID |-> s, cookieSessionId |-> Undefined,
      bodyCsrf |-> Undefined, headerCsrf |-> Undefined, cookieCsrf |-> Undefined]
        : s \in {"S1", "S2"}}
    \cup {[method |-> "POST", sessionID |-> s, cookieSessionId |-> Undefined,
           bodyCsrf |-> b, headerCsrf |-> h, cookieCsrf |-> Undefined]
        : s \in {"S1", "S2"}, b \in {Undefined, Hex(1), UpperHex(1)}, h \in Variants}

NextExact == \E r \in ExactRequests : Serve(r)

SpecExact == Init /\ [][NextExact]_vars

\* SpecPipeline: a client whose requests carry what it has received: the
\* session key is S1, none, or a value from a csrf-token cookie, and so is the
\* token; a request is answered, or its connection lost, before the next one
PipelineRequests ==
    {[method |-> m, sessionID |-> s, cookieSessionId |-> c,
      bodyCsrf |-> Undefined, headerCsrf |-> h, cookieCsrf |-> Undefined]
        : m \in {"GET", "POST"}, s \in {Undefined, "S1"},
          c \in {Undefined} \cup delivered, h \in {Undefined} \cup delivered}

NextPipeline ==
    \/ /\ response.state \notin {"pending", "passed"}
       /\ \E r \in PipelineRequests : Serve(r)
    \/ RouteResponds
    \/ RouteFails
    \/ \E xhr \in BOOLEAN, accept \in AcceptHeaders : csrfErrorHandler(xhr, accept)
    \/ GlobalErrorHandler
    \/ Abort

SpecPipeline == Init /\ [][NextPipeline]_vars

\* SpecLifecycle: one session, the clock, the timer and the shutdown of the
\* host.  The clock advances and a due timer fires: weak fairness of both.
LifecycleRequests ==
    {[method |-> m, sessionID |-> "S1", cookieSessionId |-> Undefined,
      bodyCsrf |-> Undefined, headerCsrf |-> h, cookieCsrf |-> Undefined]
        : m \in {"GET", "POST"}, h \in {Undefined} \cup KnownTokens}

NextLifecycle ==
    \/ /\ ~closing
       /\ \E r \in LifecycleRequests : Serve(r)
    \/ Tick
    \/ Sweep
    \/ Shutdown

SpecLifecycle ==
    Init /\ [][NextLifecycle]_vars /\ WF_vars(Tick) /\ WF_vars(Sweep)

\* SpecFailures: the ways a request with session key and token can fail.  S1
\* gets tokens, S2 never has a record; the sweep evicts; each request is
\* answered, by a route or by csrfErrorHandler, before the next one
FailureRequests ==
    {[method |-> "GET", sessionID |-> "S1", cookieSessionId |-> Undefined,
      bodyCsrf |-> Undefined, headerCsrf |-> Undefined, cookieCsrf |-> Undefined]}
    \cup {[method |-> "POST", sessionID |-> s, cookieSessionId |-> Undefined,
           bodyCsrf |-> Undefined, headerCsrf |-> h, cookieCsrf |-> Undefined]
        : s \in {"S1", "S2"}, h \in KnownTokens}

NextFailures ==
    \/ /\ response.state # "pending"
       /\ \E r \in FailureRequests : Serve(r)
    \/ RouteResponds
    \/ \E xhr \in BOOLEAN, accept \in AcceptHeaders : csrfErrorHandler(xhr, accept)
    \/ Tick
    \/ Sweep

SpecFailures == Init /\ [][NextFailures]_vars

\* SpecSanitize: one request with a body of one of the shapes below and no
\* query, or with a nested query, flat params and no body
Flat(k) == Obj(<<Prop(k, Leaf)>>)

\* the bodies of key k1 and, nested in it or next to it, key k2
SanBodies(k1, k2) ==
    {Flat(k1),
     IF k1 = k2 THEN Flat(k1) ELSE Obj(<<Prop(k1, Leaf), Prop(k2, Leaf)>>),
     Obj(<<Prop(k1, Flat(k2))>>),
     Obj(<<Prop(k1, Arr(<<Flat(k2)>>))>>),
     Arr(<<Flat(k1)>>),
     Arr(<<Arr(<<Flat(k1), Leaf>>)>>)}

SanRequests(k1, k2) ==
    {[body |-> b, query |-> Absent, params |-> Absent] : b \in SanBodies(k1, k2)}
    \cup {[body |-> Absent, query |-> Obj(<<Prop(k1, Flat(k2))>>), params |-> Flat(k1)]}

NextSanitize ==
    \/ /\ sanPhase = "idle"
       /\ \E k1 \in Keys, k2 \in Keys : \E r \in SanRequests(k1, k2) : SanReceive(r)
    \/ mongoSanitize("_")

SpecSanitize == Init /\ [][NextSanitize]_vars

\* SpecAuth: register and login requests for two addresses, one of them also
\* in upper case; passwords are strong, weak, missing or, for a login, a number
RegisterBodies ==
    {[email |-> e, password |-> "Passw0rd1", name |-> ""] : e \in {"a@x.io", "A@x.io", "b@x.io"}}
    \cup {[email |-> "a@x.io", password |-> "Passw0rd2", name |-> "Ann"],
          [email |-> "nobody", password |-> "Passw0rd1", name |-> ""],
          [email |-> "a@x.io", password |-> "weak", name |-> ""],
          [email |-> "", password |-> "Passw0rd1", name |-> ""]}

LoginBodies ==
    {[email |-> e, password |-> pw, name |-> ""]
        : e \in {"a@x.io", "A@x.io", "b@x.io"},
          pw \in {"Passw0rd1", "Passw0rd2", NumberPassword}}
    \cup {[email |-> "a@x.io", password |-> "", name |-> ""]}

NextAuth ==
    \/ /\ AuthRequestsMade < MaxAuthRequests
       /\ \/ \E body \in RegisterBodies : RegisterRejects(body)
          \/ \E body \in RegisterBodies : RegisterHashes(body)
          \/ \E body \in LoginBodies : LoginRejects(body)
          \/ \E body \in LoginBodies : LoginCompares(body)
    \/ \E i \in 1..Len(awaiting) : RegisterStores(i)
    \/ \E i \in 1..Len(awaiting) : LoginAnswers(i)

SpecAuth == Init /\ [][NextAuth]_vars

\* SpecAdmin: requests to the two admin routes.  A token is signed with
\* JWT_SECRET or with another key, is expired or not, and carries the role
\* admin, user, moderator, the empty string or none; it comes as Bearer token,
\* under another scheme, in the token cookie or in the token query parameter
Roles == {"admin", "user", "moderator", "", Undefined}

Jwt(role, signature, expired) ==
    [payload |-> [id |-> "1", email |-> "a@x.io", role |-> role],
     signature |-> signature, expired |-> expired]

Jwts ==
    {Jwt(role, "JWT_SECRET", FALSE) : role \in Roles}
    \cup {Jwt("admin", "JWT_SECRET", TRUE), Jwt("admin", "other key", FALSE)}

Authorizations ==
    {NoAuthorization, [scheme |-> "bearer", token |-> Jwt("admin", "JWT_SECRET", FALSE)]}
    \cup {[scheme |-> "Bearer", token |-> t]
            : t \in {NoToken, Jwt("admin", "JWT_SECRET", FALSE),
                     Jwt("user", "JWT_SECRET", FALSE), Jwt("admin", "JWT_SECRET", TRUE)}}

ApiRequests ==
    {[method |-> m, authorization |-> a, cookieToken |-> c, queryToken |-> q,
      user |-> NoToken.payload, hasUser |-> FALSE]
        : m \in {"GET", "DELETE"}, a \in Authorizations, c \in Jwts \cup {NoToken},
          q \in {NoToken, Jwt("admin", "JWT_SECRET", FALSE), Jwt(Undefined, "JWT_SECRET", FALSE)}}

NextAdmin ==
    \/ /\ apiStage \in {"idle", "done"}
       /\ \E r \in ApiRequests : ApiReceive(r)
    \/ authenticate
    \/ authorize({"admin"})
    \/ AdminHandler

SpecAdmin == Init /\ [][NextAdmin]_vars

\* SpecDatabase: calls of connectDB and disconnectDB at any moment, also
\* while earlier calls wait, and the events of the connection
NextDatabase ==
    \/ connectDB
    \/ connectDBResumes
    \/ connectDBFails
    \/ Disconnected
    \/ Reconnected
    \/ disconnectDB
    \/ disconnectDBResumes
    \/ SIGINT

SpecDatabase == Init /\ [][NextDatabase]_vars

\* SpecInFlight: requests of one session wait together before the guard runs
\* for them, in any order
InFlightRequests ==
    {[method |-> m, sessionID |-> "S1", cookieSessionId |-> Undefined,
      bodyCsrf |-> Undefined, headerCsrf |-> h, cookieCsrf |-> Undefined]
        : m \in {"GET", "POST"}, h \in {Undefined} \cup KnownTokens}

NextInFlight ==
    \/ \E r \in InFlightRequests : Arrive(r)
    \/ Dispatch

SpecInFlight == Init /\ [][NextInFlight]_vars

----------------------------------------------------------------------------
(* Vocabulary of the properties *)

\* a step in which csrfProtection handled the request req' (the clock and the
\* timer stand still; Tick moves now, Sweep moves nextSweep)
RequestStep == now' = now /\ nextSweep' = nextSweep

IsUnsafe(r) == r.method \notin {"", "GET", "HEAD", "OPTIONS"}

IsSafe(r) == r.method \in {"GET", "HEAD", "OPTIONS"}

\* next(error) with code EBADCSRFTOKEN and status 403, and no plain next()
Rejected403 ==
    /\ out.next = "error"
    /\ out.error.code = "EBADCSRFTOKEN"
    /\ out.error.statusCode = 403

Proceeded == out.next = "ok" /\ out.error = NoError

\* the token values generateToken() has returned so far
Generated == {Hex(i) : i \in 1..entropy}

\* the first non-empty of body field _csrf, header x-csrf-token, cookie csrf-token
FirstNonEmpty(r) ==
    IF r.bodyCsrf \notin {Undefined, ""} THEN r.bodyCsrf
    ELSE IF r.headerCsrf \notin {Undefined, ""} THEN r.headerCsrf
    ELSE r.cookieCsrf

\* the session key of a request: req.sessionID, else the sessionId cookie
KeyOf(r) == IF r.sessionID \notin {Undefined, ""} THEN r.sessionID ELSE r.cookieSessionId

HasSessionKey(r) == r.sessionID \notin {Undefined, ""} \/ r.cookieSessionId \notin {Undefined, ""}

----------------------------------------------------------------------------
(* C1 - C10 *)

\* C1: once an unsafe request for session key S carrying token T has passed
\* validation, every later unsafe request for S carrying T is rejected with
\* code EBADCSRFTOKEN and status 403, and the token stored for S is never T again.
C1_RotationConsumes ==
    [][ /\ (RequestStep /\ IsUnsafe(req')
                /\ <<KeyOf(req'), FirstNonEmpty(req')>> \in used)
            => Rejected403'
        /\ \A p \in used' : MapGet(tokenStore', p[1]).token # p[2] ]_vars

\* C1 witness: a replay of a consumed token has been rejected
C1_Witness ==
    /\ IsUnsafe(req)
    /\ <<KeyOf(req), FirstNonEmpty(req)>> \in used
    /\ Rejected403

\* C2: an unsafe request for a session key whose stored record has expired
\* (now past expires) fails validation, whether or not the sweep has removed
\* the record.
C2_ExpiredFails ==
    [][ (RequestStep /\ IsUnsafe(req')
            /\ MapGet(tokenStore, KeyOf(req')).found
            /\ now > MapGet(tokenStore, KeyOf(req')).expires)
        => out'.next = "error" ]_vars

\* C3: an unsafe request proceeds iff it has a session key, it has a candidate
\* token, the store has a record for the key and the candidate is the stored
\* token; otherwise the guard signals an error and does not proceed.
C3_ValidatesIff ==
    [][ (RequestStep /\ IsUnsafe(req')) =>
            LET s == KeyOf(req')
                c == FirstNonEmpty(req')
                valid == /\ s \notin {Undefined, ""}
                         /\ c \notin {Undefined, ""}
                         /\ s \in DOMAIN tokenStore
                         /\ tokenStore[s].token = c
            IN /\ out'.next \in {"ok", "error"}
               /\ out'.next = "ok" <=> valid
               /\ out'.next = "error" <=> out'.error # NoError ]_vars

\* C3 witness: an unsafe request with key, candidate and record was rejected for
\* a candidate that is not the stored token, after another one had proceeded
C3_Witness ==
    /\ IsUnsafe(req)
    /\ out.next = "error"
    /\ out.storedData.found
    /\ out.tokenFromRequest \notin {Undefined, ""}
    /\ out.storedData.token # out.tokenFromRequest
    /\ used # {}

\* C4: a request with method GET, HEAD or OPTIONS always proceeds without an
\* error, whatever its session key and the store; the guard stores a newly
\* generated token (under the request's session key when it has one) and sets
\* it as the csrf-token cookie.
C4_SafeNeverBlocked ==
    [][ (RequestStep /\ req'.method \in {"GET", "HEAD", "OPTIONS"}) =>
            /\ out'.next = "ok"
            /\ out'.error = NoError
            /\ out'.cookie \notin {Undefined, ""}
            /\ out'.cookie \notin Generated
            /\ \E k \in DOMAIN tokenStore' :
                  /\ tokenStore'[k].token = out'.cookie
                  /\ HasSessionKey(req') => k = KeyOf(req') ]_vars

\* C4 witness: an OPTIONS request without session key proceeded while the store
\* held records of other keys
C4_Witness ==
    /\ req.method = "OPTIONS"
    /\ ~HasSessionKey(req)
    /\ Proceeded
    /\ Cardinality(DOMAIN tokenStore) >= 2

\* C5: an unsafe request with neither req.sessionID nor a sessionId cookie is
\* rejected with the CSRF error, whatever token it presents and whatever the
\* store holds.
C5_NoSessionRejected ==
    [][ (RequestStep /\ IsUnsafe(req') /\ ~HasSessionKey(req')) => Rejected403' ]_vars

\* C5 witness: a request without session key presenting a stored token was rejected
C5_Witness ==
    /\ IsUnsafe(req)
    /\ ~HasSessionKey(req)
    /\ \E k \in DOMAIN tokenStore : tokenStore[k].token = FirstNonEmpty(req)
    /\ Rejected403

\* an unsafe request for key s that passed validation
Consumes(s) == RequestStep /\ IsUnsafe(req') /\ KeyOf(req') = s /\ out'.next = "ok"

\* a safe request whose session key is s
Reissues(s) == RequestStep /\ IsSafe(req') /\ out'.sessionId = s

\* an unsafe request for key s presenting the token stored for s
Presents(s) ==
    /\ RequestStep
    /\ IsUnsafe(req')
    /\ KeyOf(req') = s
    /\ FirstNonEmpty(req') = tokenStore[s].token

\* C6 as stated: while its TTL has not elapsed, a stored token keeps passing, and
\* only its consumption by a successful validation replaces or removes it.
C6_ValidUntilConsumedOrExpired ==
    [][ \A s \in DOMAIN tokenStore :
            now' <= tokenStore[s].expires =>
                /\ Presents(s) => out'.next = "ok"
                /\ ~Consumes(s) => MapGet(tokenStore', s) = MapGet(tokenStore, s) ]_vars

\* C6 amended: while its TTL has not elapsed, a stored token keeps passing, and
\* only its consumption by a successful validation or a safe request for the
\* same session key replaces or removes it.
C6_ValidUntilConsumedReissuedOrExpired ==
    [][ \A s \in DOMAIN tokenStore :
            now' <= tokenStore[s].expires =>
                /\ Presents(s) => out'.next = "ok"
                /\ (~Consumes(s) /\ ~Reissues(s)) =>
                        MapGet(tokenStore', s) = MapGet(tokenStore, s) ]_vars

\* C6 witness: a token issued at an earlier instant passed validation within its TTL
C6_Witness ==
    /\ IsUnsafe(req)
    /\ Proceeded
    /\ out.storedData.found
    /\ out.storedData.expires < now + OneHour
    /\ now <= out.storedData.expires

\* t was generated before the token now stored for s
StaleFor(s, t) ==
    /\ s \in DOMAIN tokenStore
    /\ \E i, j \in 1..entropy : i < j /\ t = Hex(i) /\ tokenStore[s].token = Hex(j)

\* C7: every safe request for S stores a new token, which replaces the one
\* stored for S before and is the token the store holds afterwards; an unsafe
\* request for S presenting a token older than the stored one is rejected.
C7_LastWriteWins ==
    [][ RequestStep =>
            /\ IsSafe(req') =>
                  LET s == out'.sessionId
                  IN /\ s \in DOMAIN tokenStore'
                     /\ tokenStore'[s].token = out'.cookie
                     /\ out'.cookie \notin Generated
                     /\ tokenStore'[s].expires = now + OneHour
                     /\ s \in DOMAIN tokenStore => tokenStore'[s].token # tokenStore[s].token
            /\ (IsUnsafe(req') /\ StaleFor(KeyOf(req'), FirstNonEmpty(req')))
                  => Rejected403' ]_vars

\* C7 witness: S1 got h1 and then h2 from two safe requests (nothing else has
\* happened: two tokens generated, none consumed, no sweep yet), and the unsafe
\* request presenting h1 was rejected
C7_Witness ==
    /\ now = 0
    /\ entropy = 2
    /\ used = {}
    /\ DOMAIN tokenStore = {"S1"}
    /\ tokenStore["S1"].token = Hex(2)
    /\ IsUnsafe(req)
    /\ KeyOf(req) = "S1"
    /\ FirstNonEmpty(req) = Hex(1)
    /\ Rejected403

\* C8 as stated: after a safe request for S issued T1 and no other request was
\* handled since, an unsafe request for S with T1 in the x-csrf-token header
\* proceeds, and store and cookie then hold a new token with a fresh expiry.
C8_IssueThenUse ==
    [][ (/\ IsSafe(req)
         /\ RequestStep
         /\ IsUnsafe(req')
         /\ KeyOf(req') = out.sessionId
         /\ req'.bodyCsrf = Undefined
         /\ req'.headerCsrf = out.cookie)
        => /\ out'.next = "ok"
           /\ out'.cookie # out.cookie
           /\ MapGet(tokenStore', out.sessionId) =
                 [found |-> TRUE, token |-> out'.cookie, expires |-> now + OneHour] ]_vars

\* C8 amended: whenever the record of S still holds T1 (as it does after a safe
\* request issued T1 and no request for S followed, unless the sweep has removed
\* the record), an unsafe request for S with T1 in the x-csrf-token header
\* proceeds, and store and cookie then hold a new token with a fresh expiry.
C8_IssueThenUseUnlessSwept ==
    [][ (/\ RequestStep
         /\ IsUnsafe(req')
         /\ KeyOf(req') \in DOMAIN tokenStore
         /\ req'.bodyCsrf = Undefined
         /\ req'.headerCsrf = tokenStore[KeyOf(req')].token)
        => /\ out'.next = "ok"
           /\ out'.cookie # req'.headerCsrf
           /\ out'.cookie \notin Generated
           /\ MapGet(tokenStore', KeyOf(req')) =
                 [found |-> TRUE, token |-> out'.cookie, expires |-> now + OneHour] ]_vars

\* C8 witness: the first token of the run, issued to S1, was used at a later
\* instant and S1 now holds the second one
C8_Witness ==
    /\ IsUnsafe(req)
    /\ req.headerCsrf = Hex(1)
    /\ Proceeded
    /\ used = {<<"S1", Hex(1)>>}
    /\ out.cookie = Hex(2)
    /\ now > 0
    /\ MapGet(tokenStore, "S1") = [found |-> TRUE, token |-> Hex(2), expires |-> now + OneHour]

\* C9: an unsafe request for a session key without record in the store is
\* rejected with code EBADCSRFTOKEN, whatever its candidate token.
C9_NoRecordRejected ==
    [][ (RequestStep /\ IsUnsafe(req') /\ KeyOf(req') \notin DOMAIN tokenStore)
            => Rejected403' ]_vars

\* C9 witness: tokens were issued, the sweep has emptied the store, and an unsafe
\* request with session key and candidate was rejected for want of a record
C9_Witness ==
    /\ IsUnsafe(req)
    /\ HasSessionKey(req)
    /\ FirstNonEmpty(req) \in Generated
    /\ entropy > 0
    /\ DOMAIN tokenStore = {}
    /\ ~out.storedData.found
    /\ Rejected403

\* C10: the candidate of an unsafe request is the first non-empty of body field,
\* header and cookie, and the request passes iff that value is the stored token:
\* a matching body field alone passes, a non-matching one is not rescued by a
\* matching header or cookie.
C10_SourcePriority ==
    [][ (RequestStep /\ IsUnsafe(req')) =>
            /\ FirstNonEmpty(req') \notin {Undefined, ""}
                  => out'.tokenFromRequest = FirstNonEmpty(req')
            /\ FirstNonEmpty(req') \in {Undefined, ""} => out'.next = "error"
            /\ (HasSessionKey(req') /\ KeyOf(req') \in DOMAIN tokenStore) =>
                  (out'.next = "ok"
                      <=> FirstNonEmpty(req') = tokenStore[KeyOf(req')].token) ]_vars

\* C10 witness: a made-up body field was not rescued by the stored token in
\* header and cookie
C10_Witness ==
    /\ IsUnsafe(req)
    /\ req.bodyCsrf = Forged
    /\ out.storedData.found
    /\ req.headerCsrf = out.storedData.token
    /\ req.cookieCsrf = out.storedData.token
    /\ Rejected403

----------------------------------------------------------------------------
(* C11 - C20 *)

\* C11: an unsafe request whose candidate differs from the token stored for its
\* session key, be it in one character or only in letter case, is rejected and
\* leaves the store as it was.
C11_ExactComparison ==
    [][ (/\ RequestStep
         /\ IsUnsafe(req')
         /\ KeyOf(req') \in DOMAIN tokenStore
         /\ FirstNonEmpty(req') # tokenStore[KeyOf(req')].token)
        => /\ Rejected403'
           /\ tokenStore' = tokenStore ]_vars

\* C11 witness: the stored token in upper case was rejected
C11_Witness ==
    /\ IsUnsafe(req)
    /\ out.storedData.found
    /\ \E i \in 1..entropy :
          /\ out.storedData.token = Hex(i)
          /\ FirstNonEmpty(req) = UpperHex(i)
    /\ Rejected403

\* an error with the code and status the boundary handler looks for
CsrfErrorExpected(message) ==
    [message |-> message, statusCode |-> 403, code |-> "EBADCSRFTOKEN"]

\* the four conditions of a successful validation
ValidFor(r, store) ==
    /\ HasSessionKey(r)
    /\ FirstNonEmpty(r) \notin {Undefined, ""}
    /\ KeyOf(r) \in DOMAIN store
    /\ store[KeyOf(r)].token = FirstNonEmpty(r)

\* C12: every validation failure (no session key, no candidate, no record,
\* mismatch) ends in next(error) with code EBADCSRFTOKEN and statusCode 403 and
\* without the plain next(); and the guard signals no other error.
C12_FailureSignalled ==
    [][ RequestStep =>
            /\ (IsUnsafe(req') /\ ~ValidFor(req', tokenStore)) =>
                  /\ out'.next = "error"
                  /\ out'.error.code = "EBADCSRFTOKEN"
                  /\ out'.error.statusCode = 403
                  /\ out'.cookie = Undefined
            /\ out'.next = "error" =>
                  out'.error \in {CsrfErrorExpected("CSRF token missing"),
                                  CsrfErrorExpected("Invalid CSRF token")} ]_vars

\* C12 witness: a request with session key but without candidate was refused
C12_Witness ==
    /\ IsUnsafe(req)
    /\ HasSessionKey(req)
    /\ FirstNonEmpty(req) \in {Undefined, ""}
    /\ Rejected403
    /\ out.error.message = "CSRF token missing"

\* C14: the store has one record per session key: a request that issues or
\* rotates for a key that has a record leaves the set of keys as it was, and the
\* record of the key afterwards is the new one as a whole, the new token with
\* the new expiry; the other records stay.
C14_OneRecordPerKey ==
    [][ (/\ RequestStep
         /\ Proceeded'
         /\ HasSessionKey(req')
         /\ KeyOf(req') \in DOMAIN tokenStore)
        => /\ DOMAIN tokenStore' = DOMAIN tokenStore
           /\ tokenStore'[KeyOf(req')] = [token |-> out'.cookie, expires |-> now + OneHour]
           /\ tokenStore'[KeyOf(req')].token # tokenStore[KeyOf(req')].token
           /\ \A k \in DOMAIN tokenStore \ {KeyOf(req')} : tokenStore'[k] = tokenStore[k] ]_vars

\* C14 witness: a record written at time 0 was replaced by a rotation later on
C14_Witness ==
    /\ IsUnsafe(req)
    /\ Proceeded
    /\ out.storedData.found
    /\ out.storedData.expires = OneHour
    /\ DOMAIN tokenStore = {KeyOf(req)}
    /\ tokenStore[KeyOf(req)].expires > OneHour
    /\ tokenStore[KeyOf(req)].token = out.cookie

\* C16: a run of the sweep at time now removes the records whose expiry is
\* before now and no other, a record whose expiry is now included in those that
\* stay, and the records that stay are as they were.
C16_SweepExact ==
    [][ nextSweep' # nextSweep =>
          /\ DOMAIN tokenStore' = {k \in DOMAIN tokenStore : tokenStore[k].expires >= now}
          /\ \A k \in DOMAIN tokenStore' : tokenStore'[k] = tokenStore[k] ]_vars

\* C16 witness: the sweep of the second hour has removed the record of S1 and
\* kept the record of S2, whose expiry is the time of the sweep
C16_Witness ==
    /\ now = 2 * OneHour
    /\ nextSweep = now + OneHour
    /\ <<"S1", Hex(1)>> \in used
    /\ DOMAIN tokenStore = {"S2"}
    /\ tokenStore["S2"].expires = now

\* C15: a token is used once: an unsafe request is accepted only if its pair of
\* session key and token has not been accepted before, also when requests of
\* the session with the same token wait for the guard at the same time.
C15_SingleUse ==
    [][ (/\ Len(inflight') < Len(inflight)
         /\ IsUnsafe(req')
         /\ Proceeded')
        => /\ <<KeyOf(req'), FirstNonEmpty(req')>> \notin used
           /\ tokenStore'[KeyOf(req')].token \notin
                 {FirstNonEmpty(inflight'[i]) : i \in 1..Len(inflight')}
           /\ tokenStore'[KeyOf(req')].token # FirstNonEmpty(req') ]_vars

\* C15 witness: of two waiting requests with the same key and token, one has
\* been accepted and the other still waits
C15_Witness ==
    /\ Len(inflight) = 1
    /\ inflight[1] = req
    /\ IsUnsafe(req)
    /\ Proceeded
    /\ <<KeyOf(req), FirstNonEmpty(req)>> \in used

\* the caller of the last request sent X-Requested-With: XMLHttpRequest or an
\* Accept header that has application/json in it
ApiStyle ==
    \/ response.xhr
    \/ \E i \in DOMAIN response.accept : response.accept[i] = "application/json"

\* a response to a CSRF error has been sent
CsrfAnswered == response.state = "sent" /\ Rejected403

\* C13 as stated: for a CSRF error an API-style caller gets status 403 and a
\* JSON payload with the machine code and a human-readable message, any other
\* caller a rendered 403 page.
C13_ErrorPayloadWithCode ==
    CsrfAnswered =>
        IF ApiStyle
        THEN /\ response.statusCode = 403
             /\ response.kind = "json"
             /\ {"code", "message"} \subseteq DOMAIN response.payload
        ELSE /\ response.statusCode = 403
             /\ response.kind = "render"
             /\ response.view = "errors/403"

\* C13 amended: for a CSRF error an API-style caller gets status 403 and a JSON
\* payload of a status 'error' and a human-readable message, without the
\* machine code; any other caller gets a rendered 403 page.
C13_ErrorPayload ==
    CsrfAnswered =>
        IF ApiStyle
        THEN /\ response.statusCode = 403
             /\ response.kind = "json"
             /\ DOMAIN response.payload = {"status", "message"}
             /\ response.payload.status = "error"
             /\ response.payload.message # ""
        ELSE /\ response.statusCode = 403
             /\ response.kind = "render"
             /\ response.view = "errors/403"
             /\ response.payload.message # ""

\* C13 witness: a caller that is API-style by its Accept header alone has been
\* answered with the JSON payload
C13_Witness ==
    /\ CsrfAnswered
    /\ ~response.xhr
    /\ ApiStyle
    /\ response.kind = "json"
    /\ response.statusCode = 403

\* C19 as stated: once the response to an accepted unsafe request is over, sent
\* or lost, the token the rotation stored for its session key has been
\* delivered to the client.
C19_RotatedTokenDelivered ==
    (/\ IsUnsafe(req)
     /\ Proceeded
     /\ response.state \in {"sent", "aborted"})
    => tokenStore[KeyOf(req)].token \in delivered

\* C20: a safe request without session key proceeds and stores its token under
\* a key generated for it, which is no key of the store and none of the values
\* sent to the client; and no unsafe request with a token issued to such a
\* request is accepted.
C20_KeylessTokenUnusable ==
    [][ /\ (/\ response.state # "pending"
            /\ response'.state = "pending"
            /\ IsSafe(req')
            /\ ~HasSessionKey(req')) =>
             /\ Proceeded'
             /\ out'.sessionId \notin DOMAIN tokenStore
             /\ out'.sessionId \notin delivered \cup {out'.cookie, out'.csrfToken}
             /\ DOMAIN tokenStore' = DOMAIN tokenStore \cup {out'.sessionId}
             /\ tokenStore'[out'.sessionId].token = out'.cookie
        /\ (IsUnsafe(req') /\ FirstNonEmpty(req') \in keyless) => Rejected403'
        /\ \A k \in DOMAIN tokenStore' :
               tokenStore'[k].token \in keyless' => k \notin delivered' ]_vars

\* C20 witness: the client sent the token of a safe request without session
\* key back, as the token and as the session key, and was refused
C20_Witness ==
    /\ IsUnsafe(req)
    /\ req.headerCsrf \in keyless
    /\ req.cookieSessionId = req.headerCsrf
    /\ req.sessionID = Undefined
    /\ Rejected403

\* the record of S1 holds the i-th token and expires before the last sweep of the model
HoldsExpiring(i) ==
    /\ "S1" \in DOMAIN tokenStore
    /\ tokenStore["S1"].token = Hex(i)
    /\ tokenStore["S1"].expires < MaxHours * OneHour

\* C17: a record does not stay for ever: a record of S1 is in the end replaced
\* by a request or removed by the sweep, and no record is in the store for
\* longer than one sweep period after its expiry.
C17_EventuallyReclaimed ==
    /\ \A i \in 1..MaxTokens :
          HoldsExpiring(i) ~> ~("S1" \in DOMAIN tokenStore /\ tokenStore["S1"].token = Hex(i))
    /\ [](\A k \in DOMAIN tokenStore : now <= tokenStore[k].expires + OneHour)

\* C17 witness: the sweep has removed the record the last request wrote
C17_Witness ==
    /\ Proceeded
    /\ KeyOf(req) = "S1"
    /\ out.cookie \in Generated
    /\ "S1" \notin DOMAIN tokenStore
    /\ nextSweep = now + OneHour

\* C18 as stated: after the shutdown step no sweep fires.
C18_NoSweepAfterShutdown ==
    [][ closing => (nextSweep' = nextSweep /\ tokenStore' = tokenStore) ]_vars

----------------------------------------------------------------------------
(* C21 - C30 *)

\* C21: a request for session key S leaves the records of all other keys as
\* they were, and no request removes a record: every key of the store is a key
\* of the store afterwards.
C21_OtherRecordsUntouched ==
    [][ RequestStep =>
          /\ DOMAIN tokenStore \subseteq DOMAIN tokenStore'
          /\ \A k \in DOMAIN tokenStore \ {KeyOf(req')} : tokenStore'[k] = tokenStore[k]
          /\ Cardinality(DOMAIN tokenStore' \ DOMAIN tokenStore) <= 1 ]_vars

\* C21 witness: the token of S1 has been rotated while S2 holds the record the
\* first request of all wrote
C21_Witness ==
    /\ IsUnsafe(req)
    /\ Proceeded
    /\ KeyOf(req) = "S1"
    /\ DOMAIN tokenStore = {"S1", "S2"}
    /\ tokenStore["S2"].token = Hex(1)
    /\ tokenStore["S1"].token = out.cookie

\* C22: a rejected unsafe request leaves the store as it was, keys, tokens and
\* expiry times, and sets neither the csrf-token cookie nor res.locals.csrfToken.
C22_RejectionChangesNothing ==
    [][ (RequestStep /\ IsUnsafe(req') /\ Rejected403') =>
          /\ tokenStore' = tokenStore
          /\ out'.cookie = Undefined
          /\ out'.csrfToken = Undefined ]_vars

\* C22 witness: a request with a wrong token for a key that has a record was
\* rejected, so the record was looked up
C22_Witness ==
    /\ IsUnsafe(req)
    /\ Rejected403
    /\ KeyOf(req) \in DOMAIN tokenStore
    /\ FirstNonEmpty(req) \notin {Undefined, "", tokenStore[KeyOf(req)].token}
    /\ tokenStore[KeyOf(req)].expires = OneHour

\* the key the token of the last request is stored under: the session key of
\* the request, or else the one key that was not a key of the store before
StoredUnder(before, after, r) ==
    IF HasSessionKey(r) THEN {KeyOf(r)} ELSE DOMAIN after \ DOMAIN before

\* C23: when the guard proceeds, the csrf-token cookie, res.locals.csrfToken
\* and the token stored for the session key of the request at the end of the
\* invocation are one value.
C23_CookieLocalsStoreAgree ==
    [][ (RequestStep /\ Proceeded') =>
          /\ out'.cookie = out'.csrfToken
          /\ out'.cookie \in Generated'
          /\ StoredUnder(tokenStore, tokenStore', req') # {}
          /\ \A k \in StoredUnder(tokenStore, tokenStore', req') :
                /\ k \in DOMAIN tokenStore'
                /\ tokenStore'[k].token = out'.cookie ]_vars

\* C23 witness: a safe request with a session key overwrote a record, and
\* cookie, locals and store hold the second token
C23_Witness ==
    /\ IsSafe(req)
    /\ Proceeded
    /\ HasSessionKey(req)
    /\ out.cookie = Hex(2)
    /\ out.csrfToken = Hex(2)
    /\ tokenStore[KeyOf(req)].token = Hex(2)

\* the response to a CSRF error as a function of the caller alone
UniformResponse(xhr, accept) ==
    IF xhr \/ \E i \in DOMAIN accept : accept[i] = "application/json"
    THEN [state |-> "sent", statusCode |-> 403, kind |-> "json", view |-> "",
          payload |-> [status |-> "error",
                       message |-> "Invalid or missing CSRF token. Please refresh the page and try again."],
          error |-> CsrfErrorExpected("Invalid CSRF token"), xhr |-> xhr, accept |-> accept]
    ELSE [state |-> "sent", statusCode |-> 403, kind |-> "render", view |-> "errors/403",
          payload |-> [title |-> "Forbidden",
                       message |-> "Invalid security token. Please go back and try again."],
          error |-> CsrfErrorExpected("Invalid CSRF token"), xhr |-> xhr, accept |-> accept]

\* C24: for an unsafe request with session key and candidate token, the error
\* of a failure is one and the same (code, status, message) and the response
\* depends on the caller's headers only, be the cause a wrong token, an evicted
\* record or a key that never had a record.
C24_FailuresIndistinguishable ==
    (/\ IsUnsafe(req)
     /\ HasSessionKey(req)
     /\ FirstNonEmpty(req) \notin {Undefined, ""}
     /\ out.next = "error")
    => /\ out.error = CsrfErrorExpected("Invalid CSRF token")
       /\ out.cookie = Undefined
       /\ response.state = "sent" => response = UniformResponse(response.xhr, response.accept)

\* C24 witness: the token issued last for S1 was refused and the refusal
\* answered, the sweep having removed the record before
C24_Witness ==
    /\ IsUnsafe(req)
    /\ KeyOf(req) = "S1"
    /\ entropy >= 1
    /\ FirstNonEmpty(req) = Hex(entropy)
    /\ ~out.storedData.found
    /\ Rejected403
    /\ response.state = "sent"

\* C25 as stated: an unsafe request is accepted only if the token stored for its
\* session key is in its _csrf body field or its x-csrf-token header.
C25_CookieAloneNotAccepted ==
    [][ (RequestStep /\ IsUnsafe(req') /\ Proceeded') =>
          /\ KeyOf(req') \in DOMAIN tokenStore
          /\ \/ req'.bodyCsrf = tokenStore[KeyOf(req')].token
             \/ req'.headerCsrf = tokenStore[KeyOf(req')].token ]_vars

RECURSIVE KeysAllowed(_)

\* no key of the value, at any depth, starts with '$' or has a '.' in it
KeysAllowed(v) ==
    IF v.t = "obj"
    THEN \A i \in 1..Len(v.e) :
            /\ v.e[i].k[1] # "$"
            /\ \A j \in 1..Len(v.e[i].k) : v.e[i].k[j] # "."
            /\ KeysAllowed(v.e[i].v)
    ELSE IF v.t = "arr"
    THEN \A i \in 1..Len(v.e) : KeysAllowed(v.e[i])
    ELSE TRUE

\* C26: once mongoSanitize has run, no key at any depth of req.body, req.query
\* and req.params starts with '$' or contains '.', through objects and arrays;
\* each part is the structure it was (an object an object, an array an array
\* of as many elements), rewritten in place.
C26_NoForbiddenKeyLeft ==
    sanPhase = "done" =>
        \A part \in {"body", "query", "params"} :
            /\ KeysAllowed(sanReq[part])
            /\ sanReq[part].t = sanRaw[part].t
            /\ sanReq[part].t = "arr" => Len(sanReq[part].e) = Len(sanRaw[part].e)

\* C26 witness: a body whose key '$.' held an array with an object of key '.$'
\* has been sanitised
C26_Witness ==
    /\ sanPhase = "done"
    /\ sanRaw.body = Obj(<<Prop(<<"$", ".">>, Arr(<<Flat(<<".", "$">>)>>))>>)
    /\ sanReq.body = Obj(<<Prop(<<"_", "_">>, Arr(<<Flat(<<"_", "$">>)>>))>>)

\* the 201 replies to register requests for the address of e
Registered(e, rs) ==
    {r \in rs : /\ r.route = "register"
                /\ r.status = 201
                /\ r.email \in (IF e \in {"a@x.io", "A@x.io"} THEN {"a@x.io", "A@x.io"} ELSE {e})}

\* C27 as stated: a register request succeeds for an address at most once, the
\* letter case of the address apart, and the user stored for an address is
\* not replaced.
C27_OneAccountPerEmail ==
    [][ /\ \A e \in DOMAIN users : e \in DOMAIN users' /\ users'[e] = users[e]
        /\ \A e \in {"a@x.io", "b@x.io"} : Cardinality(Registered(e, replies')) <= 1 ]_vars

\* C28 as stated: a login with email and password that does not succeed, the
\* address being unregistered or the password not the registered one, is
\* answered 401 with the one message and without token cookie.
C28_LoginFailuresAlike ==
    \A r \in replies :
        (/\ r.route = "login"
         /\ r.email # ""
         /\ r.password # ""
         /\ \/ ~r.found
            \/ r.password \notin {x.password : x \in Registered(r.email, replies)})
        => /\ r.status = 401
           /\ r.message = "Invalid email or password"
           /\ r.cookie = NoToken

\* the JWT a request presents: the one after "Bearer " in the Authorization
\* header when the header has that form, else the one of the token cookie,
\* else the one of the token query parameter
PresentedJwt(r) ==
    IF r.authorization.scheme = "Bearer" THEN r.authorization.token
    ELSE IF r.cookieToken # NoToken THEN r.cookieToken
    ELSE r.queryToken

\* a JWT that is there, carries the signature of the server's secret and has
\* not expired
Verifies(t) == t # NoToken /\ t.signature = "JWT_SECRET" /\ ~t.expired

\* C29: the handler of an admin route runs only for a request whose JWT
\* verifies and carries the role admin; a request with no token or with a
\* token that does not verify is answered 401, one with a verified token of
\* another role or of no role 403, and for neither the handler runs.
C29_AdminOnly ==
    LET t == PresentedJwt(apiReq)
        admin == Verifies(t) /\ t.payload.role = "admin"
    IN /\ (apiStage = "handler" \/ apiRes.ran) => admin
       /\ apiStage = "done" =>
            /\ admin => apiRes.ran /\ apiRes.status = 200
            /\ ~Verifies(t) => apiRes.status = 401 /\ ~apiRes.ran
            /\ (Verifies(t) /\ ~admin) => apiRes.status = 403 /\ ~apiRes.ran

\* a verified token without role, sent in the query parameter under an
\* Authorization header of another form, has been answered 403
C29_Witness ==
    /\ apiStage = "done"
    /\ apiRes.status = 403
    /\ ~apiRes.ran
    /\ apiReq.authorization.scheme = "bearer"
    /\ apiReq.cookieToken = NoToken
    /\ apiReq.queryToken.payload.role = Undefined

\* the handler has run for an admin token of the token cookie
C29_HandlerRan ==
    /\ apiStage = "done"
    /\ apiRes.ran
    /\ apiReq.authorization = NoAuthorization
    /\ apiReq.cookieToken.payload.role = "admin"

\* C30: connectDB reuses the connection: mongoose.connect is called only when
\* no connection is open and none is being opened, so that connectDB calls
\* that overlap open one connection; and isConnected is set exactly when the
\* last event of the connection was a connect or a reconnect.
C30_ConnectionReused ==
    [][ /\ connectCalls' > connectCalls => (readyState = 0 /\ connecting = 0)
        /\ isConnected' <=> lastEvent' \in {"connected", "reconnected"} ]_vars
====
